---- MODULE Spec2Model ----
(***************************************************************************)
(* Model of the real-time pipeline coordination core of pinkbison_studio:  *)
(*   core/pipeline_controller.py  PipelineController                       *)
(*   core/feedback_manager.py     FeedbackManager                          *)
(*                                                                         *)
(* Spec   : one PipelineController, one commanding (UI) thread and the     *)
(*          background threads start_pipeline spawns.  Statements that     *)
(*          touch status / pause_event / stop_event are separate steps,    *)
(*          because wait_for_resume touches them without the lock.         *)
(* SpecFM : one FeedbackManager; every operation runs under the manager's  *)
(*          RLock for its whole duration, so each is one step.             *)
(***************************************************************************)
EXTENDS Integers, Sequences, FiniteSets, TLC

\* ----------------------------------------------------------------- bounds
\* number of commands (start_pipeline, pause, resume, stop calls) the
\* commanding thread issues in one behaviour
MaxCmds == 3
\* number of steps (checkpoint + agent call) of a pipeline function
NSteps == 2
\* number of add_feedback calls made in one behaviour
MaxMsgs == 2
\* number of microseconds the wall clock advances in one behaviour
MaxTicks == 1
\* buffer_size the event bus is constructed with
BufferSize == 2
\* number of publish calls made in one behaviour
MaxPublish == 4
\* number of get_... calls made on the registry in one behaviour
MaxRegCalls == 3

\* ------------------------------------------------------------- controller
VARIABLES
  status,          \* self.status (PipelineStatus value)
  progress,        \* self.progress (PipelineProgress)
  current_task,    \* self.current_task
  pause_event,     \* self.pause_event flag (threading.Event)
  stop_event,      \* self.stop_event flag (threading.Event)
  lock,            \* owner of self.lock: LockFree, LockCaller or a thread id
  pipeline_thread, \* self.pipeline_thread: id of the newest thread, 0 = None
  threads,         \* background threads: position and locals of each
  callerPc,        \* position of the commanding thread
  callArgs,        \* arguments of the start_pipeline call in progress
  ret,             \* last value returned to the commanding thread
  lastCmd,         \* history: last command that returned True
  ncmds,           \* history: number of commands issued so far
  stopFromPause    \* history: the last successful stop() followed a successful pause()

VARIABLES
  status_dict      \* the dict get_status() is building or has returned

\* -------------------------------------------------------- feedback manager
VARIABLES
  feedback_messages, \* self.feedback_messages (list of FeedbackMessage)
  now,               \* wall clock read by datetime.now(), in microseconds
  next_uuid,         \* number of uuid4() values drawn so far
  fb_result,         \* list returned, when the last call was get_feedback_for_agent
  mark_call,         \* id, findings and return value, when the last call was
                     \* mark_as_processed
  fm_return          \* the id or the number returned, when the last call was
                     \* add_feedback, clear_processed or the controller's
                     \* inject_feedback (then with its arguments)

pcVars == <<status, progress, current_task, pause_event, stop_event, lock,
            pipeline_thread, threads, callerPc, callArgs, ret, lastCmd, ncmds,
            stopFromPause>>
\* --------------------------------------------------------------- event bus
VARIABLES
  buffer,         \* self.buffer (deque of Event, oldest first)
  subscribers,    \* self.subscribers: the callback list of each name, <<>>
                  \* for a name that is not a key
  events_created, \* number of Event.create calls made so far
  published,      \* history: the events published since construction or
                  \* the last clear(), in publish order
  eb_call         \* the last call of the bus: its arguments, the list or
                  \* the event it returned and the callbacks it called

\* ---------------------------------------------------------------- registry
VARIABLES
  instances,       \* ProjectRegistry._instances: the object stored under
                   \* the key of each kind and project, NoObject for a key
                   \* that is not in the dict
  objects_created, \* number of objects constructed so far
  regThreads,      \* threads calling the registry: position and locals
  reg_calls,       \* history: number of get_... calls begun so far
  returned,        \* history: the objects the get_... calls of each key
                   \* returned since the last clear_project/clear_all call
  cleared          \* project_name of the clear_project call just made

fmVars == <<feedback_messages, now, next_uuid, fb_result, mark_call,
            fm_return>>
ebVars == <<buffer, subscribers, events_created, published, eb_call>>
regVars == <<instances, objects_created, regThreads, reg_calls, returned,
             cleared>>
gsVars == <<status_dict>>
vars == <<pcVars, gsVars, fmVars, ebVars, regVars>>
\* what the actions of one component leave alone
outsidePC == <<gsVars, fmVars, ebVars, regVars>>
outsideFM == <<pcVars, gsVars, ebVars, regVars>>
outsideEB == <<pcVars, gsVars, fmVars, regVars>>
outsideReg == <<pcVars, gsVars, fmVars, ebVars>>
outsideGS == <<fmVars, ebVars, regVars>>

\* ------------------------------------------------------------- constants
\* class PipelineStatus
PipelineStatus == {"idle", "running", "paused", "stopped", "completed", "error"}

\* values start_pipeline is called with
PipelineFuncs == {"up", "wfr"}
TotalStepsChoices == {0, 1, 2}
\* current_task is a list of string pieces: a task name, None, or
\* "Error: " followed by the exception text
TaskName == <<"demo">>
NoTask == <<"None">>

InterruptedMsg == "Pipeline stopped by user"
AgentFailedMsg == "agent failed"

ThreadIds == 1..MaxCmds

\* owners of self.lock other than the background threads
LockFree == 0
LockCaller == 0 - 1

\* class PipelineProgress: the dataclass defaults, total_steps given
PipelineProgress(total) ==
  [step_number |-> 0, total_steps |-> total, current_step |-> 0,
   step_description |-> 0, percent_complete |-> 0]

NewThread == [pc |-> "unborn", step |-> 0, func |-> "up", err |-> "",
              ret |-> TRUE, ckpt |-> FALSE]

NoRet == [op |-> "none", val |-> FALSE]

NoArgs == [func |-> "up", total |-> 0]

\* ------------------------------------------------------- history helpers
\* pause() has returned True and no resume()/stop() has been called since
PauseHeld ==
  /\ lastCmd = "pause"
  /\ callerPc \notin {"r_159", "r_160", "st_171", "st_172", "st_173"}

Succeeded(cmd) ==
  /\ stopFromPause' = (cmd = "stop" /\ lastCmd = "pause")
  /\ lastCmd' = cmd
  /\ ret' = [op |-> cmd, val |-> TRUE]

Refused(cmd) ==
  /\ ret' = [op |-> cmd, val |-> FALSE]
  /\ UNCHANGED <<lastCmd, stopFromPause>>

SetThread(t, r) == threads' = [threads EXCEPT ![t] = r]

\* --------------------------------------------------------- start_pipeline
\* start_pipeline that refuses only a running controller, not a paused one
Start_75_OnlyRunning(func, total) ==
  /\ callerPc = "ready"
  /\ ncmds < MaxCmds
  /\ ncmds' = ncmds + 1
  /\ lock = LockFree
  /\ IF status = "running"
       THEN /\ Refused("start")
            /\ UNCHANGED <<status, progress, current_task, pause_event,
                           stop_event, lock, pipeline_thread, threads,
                           callerPc, callArgs>>
       ELSE /\ lock' = LockCaller
            /\ callerPc' = "s_79"
            /\ callArgs' = [func |-> func, total |-> total]
            /\ UNCHANGED <<status, progress, current_task, pause_event,
                           stop_event, pipeline_thread, threads, ret,
                           lastCmd, stopFromPause>>
  /\ UNCHANGED outsidePC

\* lines 74-76: take the lock, refuse when running or paused
Start_75(func, total) ==
  /\ callerPc = "ready"
  /\ ncmds < MaxCmds
  /\ ncmds' = ncmds + 1
  /\ lock = LockFree
  /\ IF status \in {"running", "paused"}
       THEN /\ Refused("start")
            /\ UNCHANGED <<status, progress, current_task, pause_event,
                           stop_event, lock, pipeline_thread, threads,
                           callerPc, callArgs>>
       ELSE /\ lock' = LockCaller
            /\ callerPc' = "s_79"
            /\ callArgs' = [func |-> func, total |-> total]
            /\ UNCHANGED <<status, progress, current_task, pause_event,
                           stop_event, pipeline_thread, threads, ret,
                           lastCmd, stopFromPause>>
  /\ UNCHANGED outsidePC

\* lines 79-81: status, progress and current_task are reset
Start_79 ==
  /\ callerPc = "s_79"
  /\ status' = "running"
  /\ progress' = PipelineProgress(callArgs.total)
  /\ current_task' = TaskName
  /\ callerPc' = "s_82"
  /\ UNCHANGED <<pause_event, stop_event, lock, pipeline_thread, threads,
                 callArgs, ret, lastCmd, stopFromPause>>
  /\ UNCHANGED <<ncmds, outsidePC>>

\* line 82: self.stop_event.clear()
Start_82 ==
  /\ callerPc = "s_82"
  /\ stop_event' = FALSE
  /\ callerPc' = "s_83"
  /\ UNCHANGED <<status, progress, current_task, pause_event, lock,
                 pipeline_thread, threads, callArgs, ret, lastCmd, stopFromPause>>
  /\ UNCHANGED <<ncmds, outsidePC>>

\* line 83: self.pause_event.clear()
Start_83 ==
  /\ callerPc = "s_83"
  /\ pause_event' = FALSE
  /\ callerPc' = "s_91"
  /\ UNCHANGED <<status, progress, current_task, stop_event, lock,
                 pipeline_thread, threads, callArgs, ret, lastCmd, stopFromPause>>
  /\ UNCHANGED <<ncmds, outsidePC>>

\* lines 86-97: the thread is created and started, the lock released
Start_91 ==
  /\ callerPc = "s_91"
  /\ pipeline_thread' = pipeline_thread + 1
  /\ SetThread(pipeline_thread + 1,
               [NewThread EXCEPT !.pc = "run_103", !.func = callArgs.func])
  /\ lock' = LockFree
  /\ callerPc' = "ready"
  /\ callArgs' = NoArgs
  /\ Succeeded("start")
  /\ UNCHANGED <<status, progress, current_task, pause_event, stop_event>>
  /\ UNCHANGED <<ncmds, outsidePC>>

\* ------------------------------------------------------------------ pause
Pause_146 ==
  /\ callerPc = "ready"
  /\ ncmds < MaxCmds
  /\ ncmds' = ncmds + 1
  /\ lock = LockFree
  /\ IF status = "running"
       THEN /\ lock' = LockCaller
            /\ callerPc' = "p_147"
            /\ UNCHANGED <<ret, lastCmd, stopFromPause>>
       ELSE /\ Refused("pause")
            /\ UNCHANGED <<lock, callerPc>>
  /\ UNCHANGED <<status, progress, current_task, pause_event, stop_event,
                 pipeline_thread, threads, callArgs>>
  /\ UNCHANGED outsidePC

Pause_147 ==
  /\ callerPc = "p_147"
  /\ status' = "paused"
  /\ callerPc' = "p_148"
  /\ UNCHANGED <<progress, current_task, pause_event, stop_event, lock,
                 pipeline_thread, threads, callArgs, ret, lastCmd, stopFromPause>>
  /\ UNCHANGED <<ncmds, outsidePC>>

Pause_148 ==
  /\ callerPc = "p_148"
  /\ pause_event' = TRUE
  /\ lock' = LockFree
  /\ callerPc' = "ready"
  /\ Succeeded("pause")
  /\ UNCHANGED <<status, progress, current_task, stop_event,
                 pipeline_thread, threads, callArgs>>
  /\ UNCHANGED <<ncmds, outsidePC>>

\* ----------------------------------------------------------------- resume
Resume_158 ==
  /\ callerPc = "ready"
  /\ ncmds < MaxCmds
  /\ ncmds' = ncmds + 1
  /\ lock = LockFree
  /\ IF status = "paused"
       THEN /\ lock' = LockCaller
            /\ callerPc' = "r_159"
            /\ UNCHANGED <<ret, lastCmd, stopFromPause>>
       ELSE /\ Refused("resume")
            /\ UNCHANGED <<lock, callerPc>>
  /\ UNCHANGED <<status, progress, current_task, pause_event, stop_event,
                 pipeline_thread, threads, callArgs>>
  /\ UNCHANGED outsidePC

Resume_159 ==
  /\ callerPc = "r_159"
  /\ status' = "running"
  /\ callerPc' = "r_160"
  /\ UNCHANGED <<progress, current_task, pause_event, stop_event, lock,
                 pipeline_thread, threads, callArgs, ret, lastCmd, stopFromPause>>
  /\ UNCHANGED <<ncmds, outsidePC>>

Resume_160 ==
  /\ callerPc = "r_160"
  /\ pause_event' = FALSE
  /\ lock' = LockFree
  /\ callerPc' = "ready"
  /\ Succeeded("resume")
  /\ UNCHANGED <<status, progress, current_task, stop_event,
                 pipeline_thread, threads, callArgs>>
  /\ UNCHANGED <<ncmds, outsidePC>>

\* ------------------------------------------------------------------- stop
\* stop() that tests "status is not stopped" instead of "running or paused"
Stop_170_NotStopped ==
  /\ callerPc = "ready"
  /\ ncmds < MaxCmds
  /\ ncmds' = ncmds + 1
  /\ lock = LockFree
  /\ IF status # "stopped"
       THEN /\ lock' = LockCaller
            /\ callerPc' = "st_171"
            /\ UNCHANGED <<ret, lastCmd, stopFromPause>>
       ELSE /\ Refused("stop")
            /\ UNCHANGED <<lock, callerPc>>
  /\ UNCHANGED <<status, progress, current_task, pause_event, stop_event,
                 pipeline_thread, threads, callArgs>>
  /\ UNCHANGED outsidePC

Stop_170 ==
  /\ callerPc = "ready"
  /\ ncmds < MaxCmds
  /\ ncmds' = ncmds + 1
  /\ lock = LockFree
  /\ IF status \in {"running", "paused"}
       THEN /\ lock' = LockCaller
            /\ callerPc' = "st_171"
            /\ UNCHANGED <<ret, lastCmd, stopFromPause>>
       ELSE /\ Refused("stop")
            /\ UNCHANGED <<lock, callerPc>>
  /\ UNCHANGED <<status, progress, current_task, pause_event, stop_event,
                 pipeline_thread, threads, callArgs>>
  /\ UNCHANGED outsidePC

Stop_171 ==
  /\ callerPc = "st_171"
  /\ status' = "stopped"
  /\ callerPc' = "st_172"
  /\ UNCHANGED <<progress, current_task, pause_event, stop_event, lock,
                 pipeline_thread, threads, callArgs, ret, lastCmd, stopFromPause>>
  /\ UNCHANGED <<ncmds, outsidePC>>

Stop_172 ==
  /\ callerPc = "st_172"
  /\ stop_event' = TRUE
  /\ callerPc' = "st_173"
  /\ UNCHANGED <<status, progress, current_task, pause_event, lock,
                 pipeline_thread, threads, callArgs, ret, lastCmd, stopFromPause>>
  /\ UNCHANGED <<ncmds, outsidePC>>

Stop_173 ==
  /\ callerPc = "st_173"
  /\ pause_event' = TRUE
  /\ lock' = LockFree
  /\ callerPc' = "ready"
  /\ Succeeded("stop")
  /\ UNCHANGED <<status, progress, current_task, stop_event,
                 pipeline_thread, threads, callArgs>>
  /\ UNCHANGED <<ncmds, outsidePC>>

\* ------------------------------------------------- the background thread
\* what the pipeline function does after update_progress has returned
AfterUpdate(func) == IF func = "up" THEN "work" ELSE "call_wfr"

\* _run_pipeline, lines 101-110: broadcast, then call pipeline_func, whose
\* first statement is update_progress(1, ...)
Run_103(t) ==
  /\ threads[t].pc = "run_103"
  /\ SetThread(t, [threads[t] EXCEPT !.pc = "call_up", !.step = 1])
  /\ UNCHANGED <<status, progress, current_task, pause_event, stop_event,
                 lock, pipeline_thread, callerPc, callArgs, ret, lastCmd,
                 stopFromPause>>
  /\ UNCHANGED <<ncmds, outsidePC>>

\* update_progress without the status test of lines 195-196
Update_195_NoStatusTest(t) ==
  /\ threads[t].pc = "call_up"
  /\ lock = LockFree
  /\ progress' =
       [progress EXCEPT
          !.step_number = threads[t].step,
          !.current_step = threads[t].step,
          !.step_description = threads[t].step,
          !.percent_complete =
             IF progress.total_steps > 0
               THEN (threads[t].step * 100) \div progress.total_steps
               ELSE @]
  /\ lock' = t
  /\ SetThread(t, [threads[t] EXCEPT !.pc = "up_225", !.ckpt = PauseHeld])
  /\ UNCHANGED <<status, current_task, pause_event, stop_event,
                 pipeline_thread, callerPc, callArgs, ret, lastCmd, stopFromPause>>
  /\ UNCHANGED <<ncmds, outsidePC>>

\* update_progress, lines 194-222: take the lock; return at once unless
\* running; otherwise record the progress snapshot
Update_195(t) ==
  /\ threads[t].pc = "call_up"
  /\ lock = LockFree
  /\ IF status # "running"
       THEN /\ SetThread(t, [threads[t] EXCEPT
                               !.pc = AfterUpdate(threads[t].func),
                               !.ckpt = FALSE])
            /\ UNCHANGED <<progress, lock>>
       ELSE /\ progress' =
                 [progress EXCEPT
                    !.step_number = threads[t].step,
                    !.current_step = threads[t].step,
                    !.step_description = threads[t].step,
                    !.percent_complete =
                       IF progress.total_steps > 0
                         THEN (threads[t].step * 100) \div progress.total_steps
                         ELSE @]
            /\ lock' = t
            /\ SetThread(t, [threads[t] EXCEPT !.pc = "up_225",
                                               !.ckpt = PauseHeld])
  /\ UNCHANGED <<status, current_task, pause_event, stop_event,
                 pipeline_thread, callerPc, callArgs, ret, lastCmd, stopFromPause>>
  /\ UNCHANGED <<ncmds, outsidePC>>

\* line 225: if self.pause_event.is_set()
Update_225(t) ==
  /\ threads[t].pc = "up_225"
  /\ SetThread(t, [threads[t] EXCEPT
                     !.pc = IF pause_event THEN "up_226" ELSE "up_231"])
  /\ UNCHANGED <<status, progress, current_task, pause_event, stop_event,
                 lock, pipeline_thread, callerPc, callArgs, ret, lastCmd,
                 stopFromPause>>
  /\ UNCHANGED <<ncmds, outsidePC>>

\* line 226: self.status = PAUSED
Update_226(t) ==
  /\ threads[t].pc = "up_226"
  /\ status' = "paused"
  /\ SetThread(t, [threads[t] EXCEPT !.pc = "up_227"])
  /\ UNCHANGED <<progress, current_task, pause_event, stop_event, lock,
                 pipeline_thread, callerPc, callArgs, ret, lastCmd, stopFromPause>>
  /\ UNCHANGED <<ncmds, outsidePC>>

\* a wait at line 227 that returns once the flag has been cleared
Update_227_WaitsForClear(t) ==
  /\ threads[t].pc = "up_227"
  /\ ~pause_event
  /\ SetThread(t, [threads[t] EXCEPT !.pc = "up_228"])
  /\ UNCHANGED <<status, progress, current_task, pause_event, stop_event,
                 lock, pipeline_thread, callerPc, callArgs, ret, lastCmd,
                 stopFromPause>>
  /\ UNCHANGED <<ncmds, outsidePC>>

\* line 227: self.pause_event.wait() returns once the flag is set
Update_227(t) ==
  /\ threads[t].pc = "up_227"
  /\ pause_event
  /\ SetThread(t, [threads[t] EXCEPT !.pc = "up_228"])
  /\ UNCHANGED <<status, progress, current_task, pause_event, stop_event,
                 lock, pipeline_thread, callerPc, callArgs, ret, lastCmd,
                 stopFromPause>>
  /\ UNCHANGED <<ncmds, outsidePC>>

\* line 228: self.status = RUNNING
Update_228(t) ==
  /\ threads[t].pc = "up_228"
  /\ status' = "running"
  /\ SetThread(t, [threads[t] EXCEPT !.pc = "up_231"])
  /\ UNCHANGED <<progress, current_task, pause_event, stop_event, lock,
                 pipeline_thread, callerPc, callArgs, ret, lastCmd, stopFromPause>>
  /\ UNCHANGED <<ncmds, outsidePC>>

\* lines 231-236: raise InterruptedError if the stop flag is set, else
\* return; either way the lock is released
Update_231(t) ==
  /\ threads[t].pc = "up_231"
  /\ lock' = LockFree
  /\ IF stop_event
       THEN SetThread(t, [threads[t] EXCEPT !.pc = "run_122",
                                            !.err = InterruptedMsg,
                                            !.ckpt = FALSE])
       ELSE SetThread(t, [threads[t] EXCEPT
                            !.pc = AfterUpdate(threads[t].func),
                            !.ckpt = FALSE])
  /\ UNCHANGED <<status, progress, current_task, pause_event, stop_event,
                 pipeline_thread, callerPc, callArgs, ret, lastCmd, stopFromPause>>
  /\ UNCHANGED <<ncmds, outsidePC>>

\* wait_for_resume, line 300: if self.pause_event.is_set()  (no lock)
Wait_300(t) ==
  /\ threads[t].pc = "call_wfr"
  /\ SetThread(t, [threads[t] EXCEPT
                     !.pc = IF pause_event THEN "w_301" ELSE "w_315",
                     !.ckpt = PauseHeld])
  /\ UNCHANGED <<status, progress, current_task, pause_event, stop_event,
                 lock, pipeline_thread, callerPc, callArgs, ret, lastCmd,
                 stopFromPause>>
  /\ UNCHANGED <<ncmds, outsidePC>>

\* line 301: self.status = PAUSED
Wait_301(t) ==
  /\ threads[t].pc = "w_301"
  /\ status' = "paused"
  /\ SetThread(t, [threads[t] EXCEPT !.pc = "w_306"])
  /\ UNCHANGED <<progress, current_task, pause_event, stop_event, lock,
                 pipeline_thread, callerPc, callArgs, ret, lastCmd, stopFromPause>>
  /\ UNCHANGED <<ncmds, outsidePC>>

\* line 306: self.pause_event.wait() returns once the flag is set
Wait_306(t) ==
  /\ threads[t].pc = "w_306"
  /\ pause_event
  /\ SetThread(t, [threads[t] EXCEPT !.pc = "w_308"])
  /\ UNCHANGED <<status, progress, current_task, pause_event, stop_event,
                 lock, pipeline_thread, callerPc, callArgs, ret, lastCmd,
                 stopFromPause>>
  /\ UNCHANGED <<ncmds, outsidePC>>

\* lines 308-309: if self.stop_event.is_set(): return False
Wait_308(t) ==
  /\ threads[t].pc = "w_308"
  /\ IF stop_event
       THEN SetThread(t, [threads[t] EXCEPT !.pc = "wfr_ret", !.ret = FALSE,
                                            !.ckpt = FALSE])
       ELSE SetThread(t, [threads[t] EXCEPT !.pc = "w_311"])
  /\ UNCHANGED <<status, progress, current_task, pause_event, stop_event,
                 lock, pipeline_thread, callerPc, callArgs, ret, lastCmd,
                 stopFromPause>>
  /\ UNCHANGED <<ncmds, outsidePC>>

\* line 311: self.status = RUNNING
Wait_311(t) ==
  /\ threads[t].pc = "w_311"
  /\ status' = "running"
  /\ SetThread(t, [threads[t] EXCEPT !.pc = "w_315"])
  /\ UNCHANGED <<progress, current_task, pause_event, stop_event, lock,
                 pipeline_thread, callerPc, callArgs, ret, lastCmd, stopFromPause>>
  /\ UNCHANGED <<ncmds, outsidePC>>

\* wait_for_resume whose last line returns True without reading the flag
Wait_315_AlwaysTrue(t) ==
  /\ threads[t].pc = "w_315"
  /\ SetThread(t, [threads[t] EXCEPT !.pc = "wfr_ret", !.ret = TRUE,
                                     !.ckpt = FALSE])
  /\ UNCHANGED <<status, progress, current_task, pause_event, stop_event,
                 lock, pipeline_thread, callerPc, callArgs, ret, lastCmd,
                 stopFromPause>>
  /\ UNCHANGED <<ncmds, outsidePC>>

\* line 315: return not self.stop_event.is_set()
Wait_315(t) ==
  /\ threads[t].pc = "w_315"
  /\ SetThread(t, [threads[t] EXCEPT !.pc = "wfr_ret", !.ret = ~stop_event,
                                     !.ckpt = FALSE])
  /\ UNCHANGED <<status, progress, current_task, pause_event, stop_event,
                 lock, pipeline_thread, callerPc, callArgs, ret, lastCmd,
                 stopFromPause>>
  /\ UNCHANGED <<ncmds, outsidePC>>

\* the pipeline function's test of the value: "if not
\* pipeline_controller.wait_for_resume(): return {...}"
Func_AfterWait(t) ==
  /\ threads[t].pc = "wfr_ret"
  /\ SetThread(t, [threads[t] EXCEPT
                     !.pc = IF threads[t].ret THEN "work" ELSE "run_114",
                     !.ret = TRUE])
  /\ UNCHANGED <<status, progress, current_task, pause_event, stop_event,
                 lock, pipeline_thread, callerPc, callArgs, ret, lastCmd,
                 stopFromPause>>
  /\ UNCHANGED <<ncmds, outsidePC>>

\* one unit of work of the pipeline function (an agent call): it ends and
\* the function goes to its next checkpoint or returns, or it raises
Func_Work(t) ==
  /\ threads[t].pc = "work"
  /\ \/ /\ threads[t].step < NSteps
        /\ SetThread(t, [threads[t] EXCEPT !.pc = "call_up", !.step = @ + 1])
     \/ /\ threads[t].step >= NSteps
        /\ SetThread(t, [threads[t] EXCEPT !.pc = "run_114"])
     \/ SetThread(t, [threads[t] EXCEPT !.pc = "run_122",
                                        !.err = AgentFailedMsg])
  /\ UNCHANGED <<status, progress, current_task, pause_event, stop_event,
                 lock, pipeline_thread, callerPc, callArgs, ret, lastCmd,
                 stopFromPause>>
  /\ UNCHANGED <<ncmds, outsidePC>>

\* _run_pipeline, lines 113-114: with self.lock: self.status = COMPLETED
Run_114(t) ==
  /\ threads[t].pc = "run_114"
  /\ lock = LockFree
  /\ lock' = t
  /\ status' = "completed"
  /\ SetThread(t, [threads[t] EXCEPT !.pc = "run_115"])
  /\ UNCHANGED <<progress, current_task, pause_event, stop_event,
                 pipeline_thread, callerPc, callArgs, ret, lastCmd, stopFromPause>>
  /\ UNCHANGED <<ncmds, outsidePC>>

\* lines 115-117 and the finally block: percent 100, current_task None
Run_115(t) ==
  /\ threads[t].pc = "run_115"
  /\ progress' = [progress EXCEPT !.percent_complete = 100]
  /\ current_task' = NoTask
  /\ lock' = LockFree
  /\ SetThread(t, [NewThread EXCEPT !.pc = "done"])
  /\ UNCHANGED <<status, pause_event, stop_event, pipeline_thread, callerPc,
                 callArgs, ret, lastCmd, stopFromPause>>
  /\ UNCHANGED <<ncmds, outsidePC>>

\* lines 119-122: except Exception: with self.lock: self.status = ERROR
Run_122(t) ==
  /\ threads[t].pc = "run_122"
  /\ lock = LockFree
  /\ lock' = t
  /\ status' = "error"
  /\ SetThread(t, [threads[t] EXCEPT !.pc = "run_123"])
  /\ UNCHANGED <<progress, current_task, pause_event, stop_event,
                 pipeline_thread, callerPc, callArgs, ret, lastCmd, stopFromPause>>
  /\ UNCHANGED <<ncmds, outsidePC>>

\* lines 123-124 and the finally block: current_task = "Error: <message>"
Run_123(t) ==
  /\ threads[t].pc = "run_123"
  /\ current_task' = <<"Error: ", threads[t].err>>
  /\ lock' = LockFree
  /\ SetThread(t, [NewThread EXCEPT !.pc = "done"])
  /\ UNCHANGED <<status, progress, pause_event, stop_event, pipeline_thread,
                 callerPc, callArgs, ret, lastCmd, stopFromPause>>
  /\ UNCHANGED <<ncmds, outsidePC>>

\* ------------------------------------------------------- feedback manager
\* class FeedbackPriority: LOW, NORMAL, HIGH, CRITICAL, URGENT
FeedbackPriority == 1..5
\* priorities and targets add_feedback is called with; agents asked for
PriorityChoices == {2, 5}
TargetChoices == {"scene_generator", "ALL"}
AgentChoices == {"scene_generator", "editor"}

NoMarkCall == [id |-> 0, stored |-> FALSE, was_processed |-> FALSE,
               ret |-> FALSE]
NoReturn == [op |-> "none", args |-> <<>>, val |-> 0]

\* class FeedbackType
FeedbackType == {"guidance", "critique", "correction", "suggestion", "canon",
                 "priority"}

\* get_stats, lines 184-209, of the list msgs (by_priority is keyed by the
\* value of the priority here, by its name in the code)
GetStats(msgs) ==
  LET total == Len(msgs)
      processed == Cardinality({i \in 1..Len(msgs) : msgs[i].processed})
  IN  [total |-> total,
       processed |-> processed,
       unprocessed |-> total - processed,
       by_priority |->
         [p \in FeedbackPriority |->
            Cardinality({i \in 1..Len(msgs) : msgs[i].priority = p})],
       by_type |->
         [t \in FeedbackType |->
            Cardinality({i \in 1..Len(msgs) : msgs[i].feedback_type = t})]]

\* the clock starts one microsecond before a full second
ClockStart == 1000000 - 1

\* datetime.isoformat(): the seconds, then "." and six digits unless the
\* microsecond is 0; as the list of character codes ("." is 46, "0" is 48).
\* The date, hour and minute before it are the same for all messages.
IsoFormat(t) ==
  LET sec == t \div 1000000
      us == t % 1000000
      digit(d) == 48 + d
  IN  <<digit(sec \div 10), digit(sec % 10)>> \o
      ( IF us = 0 THEN <<>>
        ELSE <<46, digit(us \div 100000), digit((us \div 10000) % 10),
               digit((us \div 1000) % 10), digit((us \div 100) % 10),
               digit((us \div 10) % 10), digit(us % 10)>> )

\* Python's str < str: by character code, a proper prefix is smaller
StrLess(a, b) ==
  \E i \in 1..Len(b) :
    /\ \A j \in 1..(i - 1) : j <= Len(a) /\ a[j] = b[j]
    /\ \/ i = Len(a) + 1
       \/ i <= Len(a) /\ a[i] < b[i]

\* the sort key of line 139, (-priority, created_at), compared as tuples
KeyLess(x, y) ==
  \/ (0 - x.priority) < (0 - y.priority)
  \/ x.priority = y.priority /\ StrLess(x.created_at, y.created_at)

\* list.sort(key=..., reverse=True): descending and stable, so x is placed
\* before the first element of the sorted prefix whose key is smaller
InsertDesc(sorted, x) ==
  LET smaller == {i \in 1..Len(sorted) : KeyLess(sorted[i], x)}
      at == IF smaller = {} THEN Len(sorted) + 1
            ELSE CHOOSE i \in smaller : \A j \in smaller : i <= j
  IN  SubSeq(sorted, 1, at - 1) \o <<x>> \o SubSeq(sorted, at, Len(sorted))

RECURSIVE SortDesc(_)
SortDesc(msgs) ==
  IF msgs = <<>> THEN <<>>
  ELSE InsertDesc(SortDesc(SubSeq(msgs, 1, Len(msgs) - 1)), msgs[Len(msgs)])

\* a filter loop that keeps broadcast messages whatever include_broadcast is
Matching_BroadcastAlways(agent, include_broadcast, unprocessed_only) ==
  SelectSeq(feedback_messages,
            LAMBDA m :
              /\ \/ m.target_agent = agent
                 \/ m.target_agent = "ALL"
              /\ (~unprocessed_only) \/ ~m.processed)

\* lines 125-135: the messages kept by the filter loop, in list order
Matching(agent, include_broadcast, unprocessed_only) ==
  SelectSeq(feedback_messages,
            LAMBDA m :
              /\ \/ m.target_agent = agent
                 \/ include_broadcast /\ m.target_agent = "ALL"
              /\ (~unprocessed_only) \/ ~m.processed)

\* add_feedback whose append is a read and a write-back of the list that
\* another add_feedback came between: the message appended last is lost
AddFeedback_LostAppend(target, priority) ==
  /\ next_uuid < MaxMsgs
  /\ next_uuid' = next_uuid + 1
  /\ feedback_messages' =
       Append(SubSeq(feedback_messages, 1, Len(feedback_messages) - 1),
              [id |-> next_uuid + 1,
               target_agent |-> target,
               feedback_type |-> "guidance",
               content |-> next_uuid + 1,
               priority |-> priority,
               source |-> "user",
               created_at |-> IsoFormat(now),
               processed |-> FALSE,
               processed_at |-> <<>>])
  /\ fb_result' = <<>>
  /\ mark_call' = NoMarkCall
  /\ fm_return' = [op |-> "add_feedback", args |-> <<>>, val |-> next_uuid + 1]
  /\ UNCHANGED now
  /\ UNCHANGED outsideFM

\* add_feedback, lines 92-105
AddFeedback(target, priority) ==
  /\ next_uuid < MaxMsgs
  /\ next_uuid' = next_uuid + 1
  /\ feedback_messages' =
       Append(feedback_messages,
              [id |-> next_uuid + 1,
               target_agent |-> target,
               feedback_type |-> "guidance",
               content |-> next_uuid + 1,
               priority |-> priority,
               source |-> "user",
               created_at |-> IsoFormat(now),
               processed |-> FALSE,
               processed_at |-> <<>>])
  /\ fb_result' = <<>>
  /\ mark_call' = NoMarkCall
  /\ fm_return' = [op |-> "add_feedback", args |-> <<>>, val |-> next_uuid + 1]
  /\ UNCHANGED now
  /\ UNCHANGED outsideFM

\* get_feedback_for_agent, lines 124-142
GetFeedbackForAgent(agent, include_broadcast, unprocessed_only) ==
  /\ fb_result' = SortDesc(Matching(agent, include_broadcast, unprocessed_only))
  /\ mark_call' = NoMarkCall
  /\ fm_return' = NoReturn
  /\ UNCHANGED <<feedback_messages, now, next_uuid>>
  /\ UNCHANGED outsideFM

\* index of the first message with the id, 0 if there is none (the loop of
\* lines 155-156)
FirstWithId(id) ==
  LET hits == {i \in 1..Len(feedback_messages) : feedback_messages[i].id = id}
  IN  IF hits = {} THEN 0 ELSE CHOOSE i \in hits : \A j \in hits : i <= j

\* mark_as_processed that reports whether it changed the flag
MarkAsProcessed_OnceOnly(id) ==
  LET i == FirstWithId(id)
      stored == \E k \in 1..Len(feedback_messages) : feedback_messages[k].id = id
      was == stored /\ feedback_messages[i].processed
  IN  /\ IF i # 0 /\ ~was
           THEN feedback_messages' =
                  [feedback_messages EXCEPT ![i].processed = TRUE,
                                            ![i].processed_at = IsoFormat(now)]
           ELSE UNCHANGED feedback_messages
      /\ mark_call' = [id |-> id, stored |-> stored, was_processed |-> was,
                       ret |-> (i # 0 /\ ~was)]
      /\ fm_return' = NoReturn
      /\ fb_result' = <<>>
      /\ UNCHANGED <<now, next_uuid>>
      /\ UNCHANGED outsideFM

\* mark_as_processed that flips the flag of the message it finds
MarkAsProcessed_Toggle(id) ==
  LET i == FirstWithId(id)
      stored == \E k \in 1..Len(feedback_messages) : feedback_messages[k].id = id
      was == stored /\ feedback_messages[i].processed
  IN  /\ IF i # 0
           THEN feedback_messages' =
                  [feedback_messages EXCEPT ![i].processed = ~was,
                                            ![i].processed_at = IsoFormat(now)]
           ELSE UNCHANGED feedback_messages
      /\ mark_call' = [id |-> id, stored |-> stored, was_processed |-> was,
                       ret |-> (i # 0)]
      /\ fm_return' = NoReturn
      /\ fb_result' = <<>>
      /\ UNCHANGED <<now, next_uuid>>
      /\ UNCHANGED outsideFM

\* mark_as_processed whose loop marks the last message it visited when no
\* id matched
MarkAsProcessed_MarksLastVisited(id) ==
  LET found == FirstWithId(id)
      i == IF found # 0 THEN found ELSE Len(feedback_messages)
      stored == \E k \in 1..Len(feedback_messages) : feedback_messages[k].id = id
      was == stored /\ feedback_messages[i].processed
  IN  /\ IF i # 0
           THEN feedback_messages' =
                  [feedback_messages EXCEPT ![i].processed = TRUE,
                                            ![i].processed_at = IsoFormat(now)]
           ELSE UNCHANGED feedback_messages
      /\ mark_call' = [id |-> id, stored |-> stored, was_processed |-> was,
                       ret |-> (found # 0)]
      /\ fm_return' = NoReturn
      /\ fb_result' = <<>>
      /\ UNCHANGED <<now, next_uuid>>
      /\ UNCHANGED outsideFM

\* mark_as_processed that sets the flag and leaves processed_at alone
MarkAsProcessed_NoTimestamp(id) ==
  LET i == FirstWithId(id)
      stored == \E k \in 1..Len(feedback_messages) : feedback_messages[k].id = id
      was == stored /\ feedback_messages[i].processed
  IN  /\ IF i # 0
           THEN feedback_messages' =
                  [feedback_messages EXCEPT ![i].processed = TRUE]
           ELSE UNCHANGED feedback_messages
      /\ mark_call' = [id |-> id, stored |-> stored, was_processed |-> was,
                       ret |-> (i # 0)]
      /\ fm_return' = NoReturn
      /\ fb_result' = <<>>
      /\ UNCHANGED <<now, next_uuid>>
      /\ UNCHANGED outsideFM

\* mark_as_processed, lines 154-160
MarkAsProcessed(id) ==
  LET i == FirstWithId(id)
      stored == \E k \in 1..Len(feedback_messages) : feedback_messages[k].id = id
      was == stored /\ feedback_messages[i].processed
  IN  /\ IF i # 0
           THEN feedback_messages' =
                  [feedback_messages EXCEPT ![i].processed = TRUE,
                                            ![i].processed_at = IsoFormat(now)]
           ELSE UNCHANGED feedback_messages
      /\ mark_call' = [id |-> id, stored |-> stored, was_processed |-> was,
                       ret |-> (i # 0)]
      /\ fm_return' = NoReturn
      /\ fb_result' = <<>>
      /\ UNCHANGED <<now, next_uuid>>
      /\ UNCHANGED outsideFM

\* clear_processed that returns the number of messages it kept
ClearProcessed_ReturnsKept ==
  /\ feedback_messages' = SelectSeq(feedback_messages, LAMBDA m : ~m.processed)
  /\ fb_result' = <<>>
  /\ mark_call' = NoMarkCall
  /\ fm_return' = [op |-> "clear_processed", args |-> <<>>,
                   val |-> Len(feedback_messages')]
  /\ UNCHANGED <<now, next_uuid>>
  /\ UNCHANGED outsideFM

\* clear_processed, lines 169-175
ClearProcessed ==
  /\ feedback_messages' = SelectSeq(feedback_messages, LAMBDA m : ~m.processed)
  /\ fb_result' = <<>>
  /\ mark_call' = NoMarkCall
  /\ fm_return' = [op |-> "clear_processed", args |-> <<>>,
                   val |-> Len(feedback_messages) - Len(feedback_messages')]
  /\ UNCHANGED <<now, next_uuid>>
  /\ UNCHANGED outsideFM

\* reset, lines 213-214
Reset ==
  /\ feedback_messages' = <<>>
  /\ fb_result' = <<>>
  /\ mark_call' = NoMarkCall
  /\ fm_return' = NoReturn
  /\ UNCHANGED <<now, next_uuid>>
  /\ UNCHANGED outsideFM

\* the wall clock advances by a microsecond
Tick ==
  /\ now < ClockStart + MaxTicks
  /\ now' = now + 1
  /\ UNCHANGED <<feedback_messages, next_uuid, fb_result, mark_call,
                 fm_return>>
  /\ UNCHANGED outsideFM

\* the content inject_feedback is called with
ContentChoices == {11}

\* inject_feedback that also pauses a running pipeline
InjectFeedback_PausesPipeline(target_agent, content) ==
  /\ callerPc = "ready"
  /\ ncmds < MaxCmds
  /\ ncmds' = ncmds + 1
  /\ next_uuid < MaxMsgs
  /\ next_uuid' = next_uuid + 1
  /\ feedback_messages' =
       Append(feedback_messages,
              [id |-> next_uuid + 1,
               target_agent |-> target_agent,
               feedback_type |-> "guidance",
               content |-> content,
               priority |-> 2,
               source |-> "user",
               created_at |-> IsoFormat(now),
               processed |-> FALSE,
               processed_at |-> <<>>])
  /\ fb_result' = <<>>
  /\ mark_call' = NoMarkCall
  /\ fm_return' = [op |-> "inject_feedback",
                   args |-> <<target_agent, content>>, val |-> next_uuid + 1]
  /\ status' = IF status = "running" THEN "paused" ELSE status
  /\ UNCHANGED <<progress, current_task, pause_event, stop_event, lock,
                 pipeline_thread, threads, callerPc, callArgs, ret, lastCmd,
                 stopFromPause>>
  /\ UNCHANGED <<now, gsVars, ebVars, regVars>>

\* PipelineController.inject_feedback, lines 285-291, called by the
\* commanding thread with the default feedback_type (GUIDANCE), priority
\* (NORMAL, 2) and source: add_feedback, lines 92-105, on the controller's
\* own feedback manager
InjectFeedback(target_agent, content) ==
  /\ callerPc = "ready"
  /\ ncmds < MaxCmds
  /\ ncmds' = ncmds + 1
  /\ next_uuid < MaxMsgs
  /\ next_uuid' = next_uuid + 1
  /\ feedback_messages' =
       Append(feedback_messages,
              [id |-> next_uuid + 1,
               target_agent |-> target_agent,
               feedback_type |-> "guidance",
               content |-> content,
               priority |-> 2,
               source |-> "user",
               created_at |-> IsoFormat(now),
               processed |-> FALSE,
               processed_at |-> <<>>])
  /\ fb_result' = <<>>
  /\ mark_call' = NoMarkCall
  /\ fm_return' = [op |-> "inject_feedback",
                   args |-> <<target_agent, content>>, val |-> next_uuid + 1]
  /\ UNCHANGED <<status, progress, current_task, pause_event, stop_event,
                 lock, pipeline_thread, threads, callerPc, callArgs, ret,
                 lastCmd, stopFromPause>>
  /\ UNCHANGED <<now, gsVars, ebVars, regVars>>

\* --------------------------------------------------------------- event bus
\* names events are addressed to and subscribed under; agents that ask for
\* their recent events
Recipients == {"Agent1", "Agent2", "ALL"}
SubscriberNames == {"Agent1", "ALL"}
RecentAgents == {"Agent1", "Agent2"}
\* the limit argument of get_recent
LimitChoices == 0..(BufferSize + 1)
\* subscriber callbacks: one that returns, one that raises an Exception on
\* every call
Callbacks == {"callback", "failing_callback"}
RaisingCallbacks == {"failing_callback"}

NoEvent == [id |-> 0, sender |-> "", recipient |-> ""]
NoBusCall == [op |-> "none", agent |-> "", limit |-> 0, result |-> <<>>,
              event |-> NoEvent, invoked |-> <<>>, buffered |-> FALSE]

\* Event.create, lines 24-35 (type, payload and timestamp are left out)
CreateEvent(sender, recipient) ==
  [id |-> events_created + 1, sender |-> sender, recipient |-> recipient]

\* deque.append that keeps the oldest events when the deque is full
DequeAppend_DropsNewest(buf, e) ==
  IF Len(buf) < BufferSize THEN Append(buf, e) ELSE buf

\* deque(maxlen=BufferSize).append, lines 50 and 65: the oldest event is
\* discarded when the deque is full
DequeAppend(buf, e) ==
  LET all == Append(buf, e)
  IN  IF Len(all) <= BufferSize THEN all
      ELSE SubSeq(all, Len(all) - BufferSize + 1, Len(all))

\* a loop over the callbacks with one try around the whole loop: the first
\* Exception ends it
RECURSIVE CallEach_TryAroundLoop(_, _)
CallEach_TryAroundLoop(cbs, i) ==
  IF i > Len(cbs) THEN <<>>
  ELSE IF cbs[i] \in RaisingCallbacks THEN <<cbs[i]>>
  ELSE <<cbs[i]>> \o CallEach_TryAroundLoop(cbs, i + 1)

\* the loops of lines 86-90 and 94-98 from position i, as the callbacks
\* called: each call has its own try, an Exception is caught and printed
\* and the loop goes on
RECURSIVE CallEach(_, _)
CallEach(cbs, i) ==
  IF i > Len(cbs) THEN <<>>
  ELSE IF cbs[i] \in RaisingCallbacks THEN <<cbs[i]>> \o CallEach(cbs, i + 1)
  ELSE <<cbs[i]>> \o CallEach(cbs, i + 1)

\* _notify_subscribers, lines 84-98: the callbacks called, in order
NotifySubscribers(event) ==
  ( IF event.recipient \in SubscriberNames /\ subscribers[event.recipient] # <<>>
      THEN CallEach(subscribers[event.recipient], 1)
      ELSE <<>> ) \o
  ( IF event.recipient = "ALL" /\ subscribers["ALL"] # <<>>
      THEN CallEach(subscribers["ALL"], 1)
      ELSE <<>> )

\* list[-n:] of Python: the last n elements, the whole list for n = 0
LastN(list, n) ==
  IF n = 0 \/ n >= Len(list) THEN list
  ELSE SubSeq(list, Len(list) - n + 1, Len(list))

\* publish that notifies the subscribers before it appends the event
Publish_NotifyFirst(recipient) ==
  /\ events_created < MaxPublish
  /\ LET event == CreateEvent("producer", recipient)
     IN  /\ events_created' = events_created + 1
         /\ buffer' = DequeAppend(buffer, event)
         /\ published' = Append(published, event)
         /\ eb_call' = [NoBusCall EXCEPT
                          !.op = "publish", !.event = event,
                          !.invoked = NotifySubscribers(event),
                          !.buffered = \E k \in 1..Len(buffer) :
                                         buffer[k] = event]
  /\ UNCHANGED subscribers
  /\ UNCHANGED outsideEB

\* publish, lines 57-67
Publish(recipient) ==
  /\ events_created < MaxPublish
  /\ LET event == CreateEvent("producer", recipient)
     IN  /\ events_created' = events_created + 1
         /\ buffer' = DequeAppend(buffer, event)
         /\ published' = Append(published, event)
         \* line 66 runs after line 65: the callbacks find the event in
         \* the buffer
         /\ eb_call' = [NoBusCall EXCEPT
                          !.op = "publish", !.event = event,
                          !.invoked = NotifySubscribers(event),
                          !.buffered = \E k \in 1..Len(buffer') :
                                         buffer'[k] = event]
  /\ UNCHANGED subscribers
  /\ UNCHANGED outsideEB

\* subscribe, lines 71-73 (a callback is subscribed once under a name)
Subscribe(agent_name, callback) ==
  /\ \A i \in 1..Len(subscribers[agent_name]) :
        subscribers[agent_name][i] # callback
  /\ subscribers' = [subscribers EXCEPT ![agent_name] = Append(@, callback)]
  /\ eb_call' = NoBusCall
  /\ UNCHANGED <<buffer, events_created, published>>
  /\ UNCHANGED outsideEB

\* get_recent, lines 77-80
GetRecent(agent_name, limit) ==
  /\ eb_call' = [NoBusCall EXCEPT
                   !.op = "get_recent", !.agent = agent_name, !.limit = limit,
                   !.result = SelectSeq(LastN(buffer, limit),
                                        LAMBDA e : e.recipient \in {agent_name, "ALL"})]
  /\ UNCHANGED <<buffer, subscribers, events_created, published>>
  /\ UNCHANGED outsideEB

\* clear, line 102
Clear ==
  /\ buffer' = <<>>
  /\ published' = <<>>
  /\ eb_call' = NoBusCall
  /\ UNCHANGED <<subscribers, events_created>>
  /\ UNCHANGED outsideEB

\* ---------------------------------------------------------------- registry
\* the kinds of object and the project names "x" and "a_x"
EventBusKind == "event_bus"
PipelineControllerKind == "pipeline_controller"
FeedbackManagerKind == "feedback_manager"
Kinds == {EventBusKind, PipelineControllerKind, FeedbackManagerKind}
Projects == {"x", "a_x"}
RegThreadIds == {1, 2}

\* the characters of each of these strings, so that str.endswith is
\* computed
Chars ==
  [n \in Kinds \cup Projects |->
     CASE n = "event_bus" -> <<"e", "v", "e", "n", "t", "_", "b", "u", "s">>
       [] n = "pipeline_controller" ->
            <<"p", "i", "p", "e", "l", "i", "n", "e", "_",
              "c", "o", "n", "t", "r", "o", "l", "l", "e", "r">>
       [] n = "feedback_manager" ->
            <<"f", "e", "e", "d", "b", "a", "c", "k", "_",
              "m", "a", "n", "a", "g", "e", "r">>
       [] n = "x" -> <<"x">>
       [] n = "a_x" -> <<"a", "_", "x">>]

\* f"<kind>_{project_name}", lines 32, 98 and 112: the key string
Key(kind, project_name) == Chars[kind] \o <<"_">> \o Chars[project_name]
\* the entry of the dict with that key (different pairs of a kind and a
\* project name here have different key strings)
Slot(kind, project_name) == <<kind, project_name>>
AllSlots == Kinds \X Projects

\* str.endswith
EndsWith(str, suffix) ==
  /\ Len(suffix) <= Len(str)
  /\ SubSeq(str, Len(str) - Len(suffix) + 1, Len(str)) = suffix

NoObject == [class |-> "", project_name |-> "", oid |-> 0,
             feedback_manager |-> 0]
IdleRegThread == [pc |-> "idle", kind |-> "", project_name |-> "",
                  ret |-> NoObject]

\* EventBus(project_name), PipelineController(project_name) and
\* FeedbackManager(project_name): a new object; a controller constructs a
\* FeedbackManager of its own (pipeline_controller.py line 44)
Construct(kind, project_name) ==
  [class |-> kind, project_name |-> project_name,
   oid |-> objects_created + 1,
   feedback_manager |->
     IF kind = PipelineControllerKind THEN objects_created + 2 ELSE 0]
ObjectsOf(kind) == IF kind = PipelineControllerKind THEN 2 ELSE 1

\* get_event_bus, get_pipeline_controller, get_feedback_manager: the key
\* is built and tested, lines 32-33, 98-99 and 112-113
Get_Check(t, kind, project_name) ==
  /\ regThreads[t].pc = "idle"
  /\ reg_calls < MaxRegCalls
  /\ reg_calls' = reg_calls + 1
  /\ regThreads' =
       [regThreads EXCEPT ![t] =
          [pc |-> IF instances[Slot(kind, project_name)] = NoObject
                    THEN "create" ELSE "return",
           kind |-> kind, project_name |-> project_name, ret |-> NoObject]]
  /\ cleared' = ""
  /\ UNCHANGED <<instances, objects_created, returned>>
  /\ UNCHANGED outsideReg

\* the object is constructed and stored under the key, lines 34, 103 and 117
Get_Create(t) ==
  /\ regThreads[t].pc = "create"
  /\ instances' =
       [instances EXCEPT ![Slot(regThreads[t].kind, regThreads[t].project_name)] =
          Construct(regThreads[t].kind, regThreads[t].project_name)]
  /\ objects_created' = objects_created + ObjectsOf(regThreads[t].kind)
  /\ regThreads' = [regThreads EXCEPT ![t].pc = "return"]
  /\ UNCHANGED <<reg_calls, returned, cleared>>
  /\ UNCHANGED outsideReg

\* return self._instances[key], lines 35, 108 and 122; a KeyError when a
\* clear has removed the key in between
Get_Return(t) ==
  /\ regThreads[t].pc = "return"
  /\ LET key == Slot(regThreads[t].kind, regThreads[t].project_name)
     IN  IF instances[key] = NoObject
           THEN /\ regThreads' = [regThreads EXCEPT ![t] = IdleRegThread]
                /\ UNCHANGED returned
           ELSE /\ regThreads' =
                     [regThreads EXCEPT ![t] =
                        [IdleRegThread EXCEPT !.ret = instances[key]]]
                /\ returned' = [returned EXCEPT ![key] = @ \cup {instances[key]}]
  /\ UNCHANGED <<instances, objects_created, reg_calls, cleared>>
  /\ UNCHANGED outsideReg

\* clear_project, lines 126-132
ClearProject(project_name) ==
  /\ instances' =
       [slot \in AllSlots |->
          IF /\ instances[slot] # NoObject
             /\ EndsWith(Key(slot[1], slot[2]), <<"_">> \o Chars[project_name])
            THEN NoObject ELSE instances[slot]]
  /\ returned' = [slot \in AllSlots |-> {}]
  /\ cleared' = project_name
  /\ UNCHANGED <<objects_created, regThreads, reg_calls>>
  /\ UNCHANGED outsideReg

\* clear_all, line 136
ClearAll ==
  /\ instances' = [slot \in AllSlots |-> NoObject]
  /\ returned' = [slot \in AllSlots |-> {}]
  /\ cleared' = ""
  /\ UNCHANGED <<objects_created, regThreads, reg_calls>>
  /\ UNCHANGED outsideReg

\* -------------------------------------------------------------- get_status
\* no dict: before the first get_status call
NoStatusDict ==
  [status |-> "", current_task |-> NoTask, progress |-> PipelineProgress(0),
   feedback_stats |-> GetStats(<<>>), is_running |-> FALSE,
   is_paused |-> FALSE, is_stopped |-> FALSE, returned |-> FALSE]

\* lines 245-246: the lock is taken and the feedback statistics are read
GetStatus_246 ==
  /\ callerPc = "ready"
  /\ lock = LockFree
  /\ lock' = LockCaller
  /\ callerPc' = "g_249"
  /\ status_dict' = [NoStatusDict EXCEPT
                       !.feedback_stats = GetStats(feedback_messages)]
  /\ UNCHANGED <<status, progress, current_task, pause_event, stop_event,
                 pipeline_thread, threads, callArgs, ret, lastCmd, ncmds,
                 stopFromPause>>
  /\ UNCHANGED outsideGS

\* lines 249-257: "status", "current_task" and the progress fields
GetStatus_249 ==
  /\ callerPc = "g_249"
  /\ callerPc' = "g_259"
  /\ status_dict' = [status_dict EXCEPT !.status = status,
                                        !.current_task = current_task,
                                        !.progress = progress]
  /\ UNCHANGED <<status, progress, current_task, pause_event, stop_event, lock,
                 pipeline_thread, threads, callArgs, ret, lastCmd, ncmds,
                 stopFromPause>>
  /\ UNCHANGED outsideGS

\* line 259: "is_running", from a new read of self.status
GetStatus_259 ==
  /\ callerPc = "g_259"
  /\ callerPc' = "g_260"
  /\ status_dict' = [status_dict EXCEPT !.is_running = (status = "running")]
  /\ UNCHANGED <<status, progress, current_task, pause_event, stop_event, lock,
                 pipeline_thread, threads, callArgs, ret, lastCmd, ncmds,
                 stopFromPause>>
  /\ UNCHANGED outsideGS

\* line 260: "is_paused", from a new read of self.status
GetStatus_260 ==
  /\ callerPc = "g_260"
  /\ callerPc' = "g_261"
  /\ status_dict' = [status_dict EXCEPT !.is_paused = (status = "paused")]
  /\ UNCHANGED <<status, progress, current_task, pause_event, stop_event, lock,
                 pipeline_thread, threads, callArgs, ret, lastCmd, ncmds,
                 stopFromPause>>
  /\ UNCHANGED outsideGS

\* line 261: "is_stopped", from a new read of self.status; the dict is
\* returned and the lock released
GetStatus_261 ==
  /\ callerPc = "g_261"
  /\ callerPc' = "ready"
  /\ lock' = LockFree
  /\ status_dict' =
       [status_dict EXCEPT
          !.is_stopped = (status \in {"stopped", "completed", "error"}),
          !.returned = TRUE]
  /\ UNCHANGED <<status, progress, current_task, pause_event, stop_event,
                 pipeline_thread, threads, callArgs, ret, lastCmd, ncmds,
                 stopFromPause>>
  /\ UNCHANGED outsideGS

\* ------------------------------------------------------- the specification
\* PipelineController.__init__, lines 40-53
PCInit ==
  /\ status = "idle"
  /\ progress = PipelineProgress(0)
  /\ current_task = NoTask
  /\ pause_event = FALSE
  /\ stop_event = FALSE
  /\ lock = LockFree
  /\ pipeline_thread = 0
  /\ threads = [t \in ThreadIds |-> NewThread]
  /\ callerPc = "ready"
  /\ callArgs = NoArgs
  /\ ret = NoRet
  /\ lastCmd = "none"
  /\ ncmds = 0
  /\ stopFromPause = FALSE

\* FeedbackManager.__init__, lines 66-69
FMInit ==
  /\ feedback_messages = <<>>
  /\ now = ClockStart
  /\ next_uuid = 0
  /\ fb_result = <<>>
  /\ mark_call = NoMarkCall
  /\ fm_return = NoReturn

GSInit == status_dict = NoStatusDict

\* EventBus.__init__, lines 49-52
EBInit ==
  /\ buffer = <<>>
  /\ subscribers = [n \in SubscriberNames |-> <<>>]
  /\ events_created = 0
  /\ published = <<>>
  /\ eb_call = NoBusCall

\* ProjectRegistry, lines 22-23: the class-level dict is empty
RegInit ==
  /\ instances = [slot \in AllSlots |-> NoObject]
  /\ objects_created = 0
  /\ regThreads = [t \in RegThreadIds |-> IdleRegThread]
  /\ reg_calls = 0
  /\ returned = [slot \in AllSlots |-> {}]
  /\ cleared = ""

Init == PCInit /\ GSInit /\ FMInit /\ EBInit /\ RegInit

Next ==
  \/ \E f \in PipelineFuncs, n \in TotalStepsChoices : Start_75(f, n)
  \/ Start_79 \/ Start_82 \/ Start_83 \/ Start_91
  \/ Pause_146 \/ Pause_147 \/ Pause_148
  \/ Resume_158 \/ Resume_159 \/ Resume_160
  \/ Stop_170 \/ Stop_171 \/ Stop_172 \/ Stop_173
  \/ \E t \in ThreadIds :
       \/ Run_103(t)
       \/ Update_195(t) \/ Update_225(t) \/ Update_226(t) \/ Update_227(t)
       \/ Update_228(t) \/ Update_231(t)
       \/ Wait_300(t) \/ Wait_301(t) \/ Wait_306(t) \/ Wait_308(t)
       \/ Wait_311(t) \/ Wait_315(t)
       \/ Func_AfterWait(t) \/ Func_Work(t)
       \/ Run_114(t) \/ Run_115(t) \/ Run_122(t) \/ Run_123(t)

Spec == Init /\ [][Next]_vars

NextFM ==
  \/ \E a \in TargetChoices, p \in PriorityChoices : AddFeedback(a, p)
  \/ \E a \in AgentChoices, b \in BOOLEAN, u \in BOOLEAN :
       GetFeedbackForAgent(a, b, u)
  \/ \E id \in 1..(MaxMsgs + 1) : MarkAsProcessed(id)
  \/ ClearProcessed
  \/ Reset
  \/ Tick

\* a step of a background thread, or a step inside a call the commanding
\* thread has begun: the scheduler runs every thread that can run
Progress ==
  \/ Start_79 \/ Start_82 \/ Start_83 \/ Start_91
  \/ Pause_147 \/ Pause_148
  \/ Resume_159 \/ Resume_160
  \/ Stop_171 \/ Stop_172 \/ Stop_173
  \/ \E t \in ThreadIds :
       \/ Run_103(t)
       \/ Update_195(t) \/ Update_225(t) \/ Update_226(t) \/ Update_227(t)
       \/ Update_228(t) \/ Update_231(t)
       \/ Wait_300(t) \/ Wait_301(t) \/ Wait_306(t) \/ Wait_308(t)
       \/ Wait_311(t) \/ Wait_315(t)
       \/ Func_AfterWait(t) \/ Func_Work(t)
       \/ Run_114(t) \/ Run_115(t) \/ Run_122(t) \/ Run_123(t)

\* the controller under a scheduler that runs every thread that can run
SpecFair == Init /\ [][Next]_vars /\ WF_vars(Progress)

SpecFM == Init /\ [][NextFM]_vars

\* the controller with its feedback manager: the commands, the background
\* threads, inject_feedback and the agents' get_feedback_for_agent calls
NextInject ==
  \/ \E f \in PipelineFuncs, n \in TotalStepsChoices : Start_75(f, n)
  \/ Start_79 \/ Start_82 \/ Start_83 \/ Start_91
  \/ Pause_146 \/ Pause_147 \/ Pause_148
  \/ Resume_158 \/ Resume_159 \/ Resume_160
  \/ Stop_170 \/ Stop_171 \/ Stop_172 \/ Stop_173
  \/ \E t \in ThreadIds :
       \/ Run_103(t)
       \/ Update_195(t) \/ Update_225(t) \/ Update_226(t) \/ Update_227(t)
       \/ Update_228(t) \/ Update_231(t)
       \/ Wait_300(t) \/ Wait_301(t) \/ Wait_306(t) \/ Wait_308(t)
       \/ Wait_311(t) \/ Wait_315(t)
       \/ Func_AfterWait(t) \/ Func_Work(t)
       \/ Run_114(t) \/ Run_115(t) \/ Run_122(t) \/ Run_123(t)
  \/ \E a \in TargetChoices, c \in ContentChoices : InjectFeedback(a, c)
  \/ \E a \in AgentChoices : GetFeedbackForAgent(a, TRUE, TRUE)

SpecInject == Init /\ [][NextInject]_vars

NextEB ==
  \/ \E r \in Recipients : Publish(r)
  \/ \E n \in SubscriberNames, cb \in Callbacks : Subscribe(n, cb)
  \/ \E a \in RecentAgents, l \in LimitChoices : GetRecent(a, l)
  \/ Clear

SpecEB == Init /\ [][NextEB]_vars

NextReg ==
  \/ \E t \in RegThreadIds :
       \/ \E k \in Kinds, p \in Projects : Get_Check(t, k, p)
       \/ Get_Create(t)
       \/ Get_Return(t)
  \/ \E p \in Projects : ClearProject(p)
  \/ ClearAll

SpecReg == Init /\ [][NextReg]_vars

\* the controller with a commanding thread that also calls get_status
NextGS ==
  \/ \E f \in PipelineFuncs, n \in TotalStepsChoices : Start_75(f, n)
  \/ Start_79 \/ Start_82 \/ Start_83 \/ Start_91
  \/ Pause_146 \/ Pause_147 \/ Pause_148
  \/ Resume_158 \/ Resume_159 \/ Resume_160
  \/ Stop_170 \/ Stop_171 \/ Stop_172 \/ Stop_173
  \/ \E t \in ThreadIds :
       \/ Run_103(t)
       \/ Update_195(t) \/ Update_225(t) \/ Update_226(t) \/ Update_227(t)
       \/ Update_228(t) \/ Update_231(t)
       \/ Wait_300(t) \/ Wait_301(t) \/ Wait_306(t) \/ Wait_308(t)
       \/ Wait_311(t) \/ Wait_315(t)
       \/ Func_AfterWait(t) \/ Func_Work(t)
       \/ Run_114(t) \/ Run_115(t) \/ Run_122(t) \/ Run_123(t)
  \/ GetStatus_246 \/ GetStatus_249 \/ GetStatus_259 \/ GetStatus_260
  \/ GetStatus_261

SpecGS == Init /\ [][NextGS]_vars

\* ----------------------------------------------------------------- claims
\* positions of a background thread
AtCall == {"call_up", "call_wfr"}
InUpdate == {"up_225", "up_226", "up_227", "up_228", "up_231"}
InWait == {"w_301", "w_306", "w_308", "w_311", "w_315"}
InFunction == AtCall \cup InUpdate \cup InWait \cup {"wfr_ret", "work"}

\* C1: once pause() has returned True, and until resume() or stop() is
\* called, the background thread of the run does not get past its next
\* call of update_progress or wait_for_resume: a call it makes while the
\* pause is held does not end.
C1_PauseBlocksRun ==
  [][\A t \in ThreadIds :
       ( /\ t = pipeline_thread
         /\ PauseHeld
         /\ threads'[t].pc # threads[t].pc
         /\ \/ threads[t].pc \in AtCall
            \/ threads[t].pc \in InUpdate \cup InWait /\ threads[t].ckpt )
       => threads'[t].pc \in InUpdate \cup InWait]_vars

\* C2: after pause() and then stop() have both returned True, with no
\* resume() in between, the status is stopped once the background thread
\* has terminated (here: without a failure of its own).
C2_StoppedOnceTerminated ==
  ( /\ lastCmd = "stop"
    /\ stopFromPause
    /\ pipeline_thread # 0
    /\ threads[pipeline_thread].pc = "done"
    /\ current_task # <<"Error: ", AgentFailedMsg>> )
  => status = "stopped"

\* C4: at any time at most one background thread is executing a pipeline
\* function.
C4_SingleActiveRun ==
  Cardinality({t \in ThreadIds : threads[t].pc \in InFunction}) <= 1

\* C5: once the status is completed, stopped or error it changes only by
\* a start_pipeline call that returns True (which sets it to running).
C5_TerminalStatesStable ==
  [][(status \in {"completed", "stopped", "error"} /\ status' # status)
       => (callerPc = "s_79" /\ status' = "running")]_vars

\* C6: on an idle controller pause(), resume() and stop() each return
\* False at once and leave the status, both signals and the progress
\* unchanged.
C6_IllegalCommandsFromIdle ==
  [][(status = "idle" /\ (Pause_146 \/ Resume_158 \/ Stop_170))
       => ( /\ ret'.val = FALSE
            /\ ret'.op \in {"pause", "resume", "stop"}
            /\ callerPc' = "ready"
            /\ lock' = LockFree
            /\ UNCHANGED <<status, pause_event, stop_event, progress>> )]_vars

C6_Witness ==
  /\ status = "idle"
  /\ ret.op \in {"pause", "resume", "stop"}
  /\ ret.val = FALSE

\* C7: start_pipeline called while the status is running or paused returns
\* False, spawns no thread, and leaves status, progress, current_task and
\* both signals unchanged.
C7_StartWhileActiveRejected ==
  [][(status \in {"running", "paused"}
        /\ \E f \in PipelineFuncs, n \in TotalStepsChoices : Start_75(f, n))
       => ( /\ ret' = [op |-> "start", val |-> FALSE]
            /\ callerPc' = "ready"
            /\ lock' = LockFree
            /\ UNCHANGED <<status, progress, current_task, pause_event,
                           stop_event, threads, pipeline_thread>> )]_vars

C7_Witness ==
  /\ ret = [op |-> "start", val |-> FALSE]
  /\ status \in {"running", "paused"}
  /\ pipeline_thread = 1

\* C8: when stop() has returned True during a run, the call of
\* update_progress the pipeline function makes next ends by raising
\* InterruptedError.
C8_StopRaisesInUpdateProgress ==
  [][\A t \in ThreadIds :
       ( /\ t = pipeline_thread
         /\ lastCmd = "stop"
         /\ threads[t].pc \in {"call_up"} \cup InUpdate
         /\ threads'[t].pc \notin {"call_up"} \cup InUpdate )
       => ( /\ threads'[t].pc = "run_122"
            /\ threads'[t].err = InterruptedMsg )]_vars

\* C9: wait_for_resume ends only by returning, and it returns False when
\* the stop signal is set as it returns and True otherwise.
C9_WaitForResumeReturn ==
  [][\A t \in ThreadIds :
       ( /\ threads[t].pc \in {"call_wfr"} \cup InWait
         /\ threads'[t].pc \notin {"call_wfr"} \cup InWait )
       => ( /\ threads'[t].pc = "wfr_ret"
            /\ threads'[t].ret = ~stop_event' )]_vars

C9_Witness ==
  \E t \in ThreadIds :
    /\ threads[t].pc = "wfr_ret"
    /\ threads[t].ret = FALSE
    /\ stop_event

\* the instant an isoformat() string denotes, in microseconds
ParseIso(str) ==
  LET d(i) == str[i] - 48
  IN  (d(1) * 10 + d(2)) * 1000000 +
      ( IF Len(str) = 2 THEN 0
        ELSE d(4) * 100000 + d(5) * 10000 + d(6) * 1000 + d(7) * 100 +
             d(8) * 10 + d(9) )

\* C3: get_feedback_for_agent returns the matching messages sorted by
\* priority descending and, among equal priorities, by creation time
\* descending.
C3_FeedbackOrdering ==
  \A i, j \in 1..Len(fb_result) :
    i < j =>
      \/ fb_result[i].priority > fb_result[j].priority
      \/ /\ fb_result[i].priority = fb_result[j].priority
         /\ ParseIso(fb_result[i].created_at) >= ParseIso(fb_result[j].created_at)

\* C10 as stated: for a stored message id the first mark_as_processed(id)
\* returns True and a second one returns False.
C10_MarkTrueThenFalse ==
  (mark_call.id # 0 /\ mark_call.stored)
    => mark_call.ret = ~mark_call.was_processed

\* C10 as amended: for a stored message id mark_as_processed(id) returns
\* True, on the first call and on every later call while it is stored.
C10_MarkStoredReturnsTrue ==
  (mark_call.id # 0 /\ mark_call.stored) => mark_call.ret = TRUE

C10_Witness ==
  /\ mark_call.id # 0
  /\ mark_call.stored
  /\ mark_call.was_processed
  /\ mark_call.ret = TRUE

\* C11: the first mark_as_processed(id) of an unprocessed stored message
\* lowers get_stats().unprocessed by one, raises processed by one and leaves
\* total as it was; a call on a message that is already processed changes
\* none of the counts.  (A step that leaves the clock alone and ends with
\* mark_call.id = id is a call of mark_as_processed(id).)
C11_MarkMovesOneCount ==
  [][(now' = now /\ mark_call'.id # 0 /\ FirstWithId(mark_call'.id) # 0)
       => LET before == GetStats(feedback_messages)
              after == GetStats(feedback_messages')
          IN  IF feedback_messages[FirstWithId(mark_call'.id)].processed
                THEN after = before
                ELSE /\ after.unprocessed = before.unprocessed - 1
                     /\ after.processed = before.processed + 1
                     /\ after.total = before.total
                     /\ after.by_priority = before.by_priority
                     /\ after.by_type = before.by_type]_vars

C11_Witness ==
  /\ mark_call.id # 0
  /\ mark_call.stored
  /\ mark_call.was_processed
  /\ GetStats(feedback_messages).processed = 1
  /\ GetStats(feedback_messages).unprocessed = 1

\* C12: mark_as_processed with an id no stored message has returns False
\* and leaves every stored message, its processed flag and its processed_at
\* included, as it was.
C12_UnknownIdChangesNothing ==
  [][(now' = now /\ mark_call'.id # 0 /\ FirstWithId(mark_call'.id) = 0)
       => ( /\ mark_call'.ret = FALSE
            /\ feedback_messages' = feedback_messages )]_vars

C12_Witness ==
  /\ mark_call.id # 0
  /\ ~mark_call.stored
  /\ mark_call.ret = FALSE
  /\ \E i \in 1..Len(feedback_messages) : ~feedback_messages[i].processed

\* the events of a list whose recipient is the agent or "ALL"
ForAgent(list, agent) ==
  SelectSeq(list, LAMBDA e : e.recipient \in {agent, "ALL"})

Reverse(list) == [i \in 1..Len(list) |-> list[Len(list) + 1 - i]]

\* C13: the buffer never holds more than BufferSize events, and it holds
\* the last BufferSize events published (all of them while fewer were
\* published), in publish order.
C13_RingBufferEviction ==
  /\ Len(buffer) <= BufferSize
  /\ buffer = LastN(published, BufferSize)

C13_Witness ==
  /\ Len(published) = BufferSize + 2
  /\ Len(buffer) = BufferSize
  /\ buffer[1] = published[3]

\* C14: when the buffer is full and every buffered event is addressed to
\* the agent, get_recent(agent, BufferSize) returns the buffered events
\* newest first.
C14_GetRecentNewestFirst ==
  ( /\ eb_call.op = "get_recent"
    /\ eb_call.limit = BufferSize
    /\ Len(buffer) = BufferSize
    /\ \A i \in 1..Len(buffer) : buffer[i].recipient = eb_call.agent )
  => eb_call.result = Reverse(buffer)

\* C15: get_recent(agent, limit) returns only events whose recipient is
\* the agent or "ALL", never more than limit of them, and exactly the
\* min(limit, m) most recent of the m such events in the buffer.
C15_GetRecentSelection ==
  eb_call.op = "get_recent"
  => LET matching == ForAgent(buffer, eb_call.agent)
         got == {eb_call.result[i] : i \in 1..Len(eb_call.result)}
         wanted == IF eb_call.limit = 0 THEN <<>>
                   ELSE LastN(matching, eb_call.limit)
     IN  /\ \A e \in got : e.recipient \in {eb_call.agent, "ALL"}
         /\ Len(eb_call.result) <= eb_call.limit
         /\ got = {wanted[i] : i \in 1..Len(wanted)}
         /\ Len(eb_call.result) = Len(wanted)

\* C16: when a callback subscribed for the event raises, publish still
\* appends the event to the buffer, still calls every callback subscribed
\* under the recipient of the event, and returns the event.
C16_SubscriberIsolation ==
  eb_call.op = "publish"
  => ( /\ eb_call.event.id = events_created
       /\ buffer[Len(buffer)] = eb_call.event
       /\ \A n \in SubscriberNames :
            n = eb_call.event.recipient
            => \A i \in 1..Len(subscribers[n]) :
                 \E k \in 1..Len(eb_call.invoked) :
                   eb_call.invoked[k] = subscribers[n][i] )

C16_Witness ==
  /\ eb_call.op = "publish"
  /\ eb_call.event.recipient = "Agent1"
  /\ subscribers["Agent1"] = <<"failing_callback", "callback">>
  /\ eb_call.invoked = <<"failing_callback", "callback">>
  /\ buffer[Len(buffer)] = eb_call.event

\* C17: the get_event_bus, get_pipeline_controller and get_feedback_manager
\* calls made for one project with no clear_project/clear_all call between
\* them return one and the same object, also when they run concurrently,
\* and the calls for different projects return different objects.
C17_RegistrySingleton ==
  /\ \A slot \in AllSlots : Cardinality(returned[slot]) <= 1
  /\ \A k \in Kinds : \A p, q \in Projects :
       p # q => returned[Slot(k, p)] \cap returned[Slot(k, q)] = {}

\* C18: clear_project(p) removes every entry of project p and leaves the
\* entries of every other project as they were.
C18_ClearProjectOnlyThatProject ==
  [][\A p \in Projects :
       (ClearProject(p) /\ cleared' = p)
       => \A slot \in AllSlots :
            instances'[slot] =
              IF instances[slot] # NoObject /\ instances[slot].project_name = p
                THEN NoObject ELSE instances[slot]]_vars

\* C19: the FeedbackManager of the project's registered controller and the
\* object get_feedback_manager has stored for the project are one object.
C19_OneFeedbackManager ==
  \A p \in Projects :
    ( /\ instances[Slot(PipelineControllerKind, p)] # NoObject
      /\ instances[Slot(FeedbackManagerKind, p)] # NoObject )
    => instances[Slot(PipelineControllerKind, p)].feedback_manager =
         instances[Slot(FeedbackManagerKind, p)].oid

\* C20: in every dict get_status returns, is_running holds exactly when
\* "status" is running, is_paused exactly when it is paused, is_stopped
\* exactly when it is stopped, completed or error, at most one of the three
\* holds, and the progress fields are those of the controller while the
\* lock is held.
C20_ConsistentSnapshot ==
  /\ status_dict.returned
       => ( /\ status_dict.is_running = (status_dict.status = "running")
            /\ status_dict.is_paused = (status_dict.status = "paused")
            /\ status_dict.is_stopped =
                 (status_dict.status \in {"stopped", "completed", "error"})
            /\ ~(status_dict.is_running /\ status_dict.is_paused)
            /\ ~(status_dict.is_running /\ status_dict.is_stopped)
            /\ ~(status_dict.is_paused /\ status_dict.is_stopped) )
  /\ callerPc \in {"g_259", "g_260", "g_261"}
       => status_dict.progress = progress

\* C21: when start_pipeline has returned True and neither pause() nor
\* stop() is called during the run and the pipeline function returns
\* normally, the status eventually is completed with percent_complete 100.
\* (Any later command that returns True and any exception of the function
\* ends the obligation.)
C21_NormalCompletion ==
  ( /\ callerPc = "ready"
    /\ lastCmd = "start"
    /\ ret = [op |-> "start", val |-> TRUE] )
  ~> ( \/ status = "completed" /\ progress.percent_complete = 100
       \/ lastCmd # "start"
       \/ callerPc \in {"p_147", "p_148", "st_171", "st_172", "st_173"}
       \/ status = "error"
       \/ \E t \in ThreadIds : threads[t].pc \in {"run_122", "run_123"} )

\* C22: when the pipeline function of the current run has raised, the
\* status becomes error with current_task holding the exception's message
\* (until start_pipeline is called again); the commanding thread is not
\* affected.
C22_FailureCapturedAsState ==
  \A t \in ThreadIds : \A m \in {InterruptedMsg, AgentFailedMsg} :
    ( /\ pipeline_thread = t
      /\ threads[t].pc = "run_122"
      /\ threads[t].err = m )
    ~> ( \/ status = "error" /\ current_task = <<"Error: ", m>>
         \/ pipeline_thread # t
         \/ callerPc \in {"s_79", "s_82", "s_83", "s_91"} )

\* C23: add_feedback calls of any threads, in any order (each call runs
\* under the manager's lock from its first to its last statement), lose
\* nothing: every call appends one message to the messages stored before
\* it and returns an id that no earlier call returned and that exactly one
\* stored message has.
C23_ConcurrentAddLosesNothing ==
  [][(next_uuid' # next_uuid)
       => ( /\ fm_return'.op = "add_feedback"
            /\ Len(feedback_messages') = Len(feedback_messages) + 1
            /\ SubSeq(feedback_messages', 1, Len(feedback_messages))
                 = feedback_messages
            /\ fm_return'.val \notin 1..next_uuid
            /\ Cardinality({i \in 1..Len(feedback_messages') :
                              feedback_messages'[i].id = fm_return'.val}) = 1 )]_vars

C23_Witness ==
  /\ fm_return.op = "add_feedback"
  /\ next_uuid = MaxMsgs
  /\ Len(feedback_messages) = MaxMsgs
  /\ \A i, j \in 1..Len(feedback_messages) :
       i # j => feedback_messages[i].id # feedback_messages[j].id

\* C24: in any pipeline status, inject_feedback(agent, content) on a
\* controller holding no feedback adds exactly one message, unprocessed,
\* for that agent and with that content, and changes neither the status nor
\* the progress; get_feedback_for_agent(agent) on the controller's feedback
\* manager then returns exactly that message.
C24_InjectRoundTrip ==
  /\ [][(next_uuid' # next_uuid /\ feedback_messages = <<>>)
          => ( /\ fm_return'.op = "inject_feedback"
               /\ Len(feedback_messages') = 1
               /\ feedback_messages'[1].target_agent = fm_return'.args[1]
               /\ feedback_messages'[1].content = fm_return'.args[2]
               /\ feedback_messages'[1].processed = FALSE
               /\ feedback_messages'[1].id = fm_return'.val
               /\ status' = status
               /\ progress' = progress )]_vars
  /\ [](Len(feedback_messages) = 1
          => \A a \in AgentChoices \cup TargetChoices :
               feedback_messages[1].target_agent = a
                 => ( /\ SortDesc(Matching(a, TRUE, TRUE)) = feedback_messages
                      /\ feedback_messages[1].processed = FALSE
                      /\ feedback_messages[1].content \in ContentChoices ))

\* an injection while the pipeline is paused has been read back
C24_Witness ==
  /\ status = "paused"
  /\ Len(feedback_messages) = 1
  /\ feedback_messages[1].target_agent = "scene_generator"
  /\ fb_result = feedback_messages

\* C25: get_feedback_for_agent(a, include_broadcast, unprocessed_only)
\* returns exactly the stored messages m with (m.target_agent = a, or
\* include_broadcast and m.target_agent = "ALL") and (not unprocessed_only,
\* or m not processed), each once; a message is not returned by the default
\* call once mark_as_processed(id) has returned true for it; and the call
\* changes no message.
C25_FeedbackFilter ==
  /\ [](\A a \in AgentChoices, b \in BOOLEAN, u \in BOOLEAN :
          LET got == SortDesc(Matching(a, b, u))
              wanted == {i \in 1..Len(feedback_messages) :
                           /\ \/ feedback_messages[i].target_agent = a
                              \/ b /\ feedback_messages[i].target_agent = "ALL"
                           /\ (~u) \/ ~feedback_messages[i].processed}
          IN  /\ Len(got) = Cardinality(wanted)
              /\ {got[k] : k \in 1..Len(got)}
                   = {feedback_messages[i] : i \in wanted}
              /\ (b /\ u /\ mark_call.id # 0 /\ mark_call.ret)
                   => \A k \in 1..Len(got) : got[k].id # mark_call.id)
  /\ [](\A k \in 1..Len(fb_result) :
          \E i \in 1..Len(feedback_messages) :
            fb_result[k] = feedback_messages[i])
  /\ [][(fb_result' # <<>> /\ fb_result' # fb_result)
          => feedback_messages' = feedback_messages]_vars

\* a call has returned a broadcast message and left out a processed one
C25_Witness ==
  /\ \E k \in 1..Len(fb_result) : fb_result[k].target_agent = "ALL"
  /\ \E i \in 1..Len(feedback_messages) :
       /\ feedback_messages[i].processed
       /\ \A k \in 1..Len(fb_result) : fb_result[k] # feedback_messages[i]

\* C26: the status becomes paused only by pause() called while running; a
\* paused status changes only by resume() (to running) or stop() (to
\* stopped); pause() returns true exactly when it found the status running
\* and resume() exactly when it found it paused.
C26_LegalPauseResume ==
  [][ /\ (status' = "paused" /\ status # "paused")
           => (callerPc = "p_147" /\ status = "running")
      /\ (status = "paused" /\ status' # "paused")
           => ( \/ callerPc = "r_159" /\ status' = "running"
                \/ callerPc = "st_171" /\ status' = "stopped" )
      /\ (callerPc = "ready" /\ ncmds' # ncmds /\ callerPc' = "p_147")
           => status = "running"
      /\ (callerPc = "ready" /\ ncmds' # ncmds /\ callerPc' = "r_159")
           => status = "paused"
      /\ (callerPc = "ready" /\ ncmds' # ncmds /\ callerPc' = "ready"
           /\ ret'.op = "pause")
           => (status # "running" /\ ret'.val = FALSE)
      /\ (callerPc = "ready" /\ ncmds' # ncmds /\ callerPc' = "ready"
           /\ ret'.op = "resume")
           => (status # "paused" /\ ret'.val = FALSE)
      /\ (callerPc = "p_148" /\ callerPc' = "ready")
           => ret' = [op |-> "pause", val |-> TRUE]
      /\ (callerPc = "r_160" /\ callerPc' = "ready")
           => ret' = [op |-> "resume", val |-> TRUE]
    ]_vars

\* C27: in every reachable state percent_complete is 100 * step_number /
\* total_steps when total_steps > 0, and 0 when total_steps = 0.
C27_DerivedPercentage ==
  IF progress.total_steps > 0
    THEN progress.percent_complete * progress.total_steps
           = 100 * progress.step_number
    ELSE progress.percent_complete = 0

\* C28: every stored message with processed = true has a processed_at that
\* is set and is not earlier than its created_at; a message just added has
\* processed = false.
C28_ProcessedTimestamp ==
  /\ [](\A i \in 1..Len(feedback_messages) :
          feedback_messages[i].processed
            => ( /\ feedback_messages[i].processed_at # <<>>
                 /\ ParseIso(feedback_messages[i].processed_at)
                      >= ParseIso(feedback_messages[i].created_at) ))
  /\ [][(next_uuid' # next_uuid)
          => ( /\ Len(feedback_messages') > 0
               /\ feedback_messages'[Len(feedback_messages')].id = next_uuid'
               /\ ~feedback_messages'[Len(feedback_messages')].processed )]_vars

\* a message was marked after the clock had moved on
C28_Witness ==
  \E i \in 1..Len(feedback_messages) :
    /\ feedback_messages[i].processed
    /\ feedback_messages[i].processed_at # <<>>
    /\ ParseIso(feedback_messages[i].processed_at)
         > ParseIso(feedback_messages[i].created_at)

\* C29: clear_processed removes exactly the processed messages and returns
\* their number; the unprocessed messages stay, unchanged and in the same
\* order; afterwards get_stats() reports 0 processed messages and as many
\* unprocessed ones as before.
C29_ClearProcessed ==
  [][(fm_return'.op = "clear_processed" /\ now' = now)
       => ( /\ \A i \in 1..Len(feedback_messages') :
                 ~feedback_messages'[i].processed
            /\ feedback_messages'
                 = SelectSeq(feedback_messages, LAMBDA m : ~m.processed)
            /\ fm_return'.val
                 = Cardinality({i \in 1..Len(feedback_messages) :
                                  feedback_messages[i].processed})
            /\ GetStats(feedback_messages').processed = 0
            /\ GetStats(feedback_messages').unprocessed
                 = GetStats(feedback_messages).unprocessed )]_vars

\* a call has removed a processed message and kept an unprocessed one
C29_Witness ==
  /\ fm_return.op = "clear_processed"
  /\ fm_return.val > 0
  /\ Len(feedback_messages) > 0

\* C30: an event published with recipient "ALL" is delivered to every
\* callback subscribed under an agent name as well as to the callbacks
\* subscribed under "ALL": each callback is called at least once for each
\* name it is subscribed under.
C30_BroadcastDelivery ==
  (eb_call.op = "publish" /\ eb_call.event.recipient = "ALL")
  => \A cb \in Callbacks :
       Cardinality({k \in 1..Len(eb_call.invoked) : eb_call.invoked[k] = cb})
         >= Cardinality({n \in SubscriberNames :
                           \E i \in 1..Len(subscribers[n]) :
                             subscribers[n][i] = cb})

\* first position at which the callback cb is called in the list calls, 0
\* if it is not called
FirstCall(calls, cb) ==
  LET at == {k \in 1..Len(calls) : calls[k] = cb}
  IN  IF at = {} THEN 0 ELSE CHOOSE k \in at : \A j \in at : k <= j

\* C31: the callbacks registered for the event's key are called by publish
\* in the order in which subscribe registered them, and only after the
\* event has been appended to the buffer.
C31_SubscriberOrder ==
  (eb_call.op = "publish" /\ eb_call.event.recipient \in SubscriberNames)
  => LET cbs == subscribers[eb_call.event.recipient]
     IN  /\ \A i \in 1..Len(cbs) : FirstCall(eb_call.invoked, cbs[i]) # 0
         /\ \A i, j \in 1..Len(cbs) :
              i < j => FirstCall(eb_call.invoked, cbs[i])
                         < FirstCall(eb_call.invoked, cbs[j])
         /\ eb_call.invoked # <<>> => eb_call.buffered

\* two callbacks of one key were called, the one registered first first,
\* with the event in the buffer
C31_Witness ==
  /\ eb_call.op = "publish"
  /\ eb_call.event.recipient = "Agent1"
  /\ subscribers["Agent1"] = <<"callback", "failing_callback">>
  /\ eb_call.invoked = <<"callback", "failing_callback">>
  /\ eb_call.buffered

\* C32: update_progress called while the status is not running returns
\* without changing a progress field, the status or a signal, and without
\* waiting on the pause signal (it does not keep the lock either).
C32_UpdateNoOpOutsideRunning ==
  [][\A t \in ThreadIds :
       ( /\ threads[t].pc = "call_up"
         /\ threads'[t].pc # "call_up"
         /\ status # "running" )
       => ( /\ progress' = progress
            /\ status' = status
            /\ pause_event' = pause_event
            /\ stop_event' = stop_event
            /\ lock' = lock
            /\ threads'[t].pc = AfterUpdate(threads[t].func) )]_vars

\* the only thread has come back from update_progress(1), called while
\* paused, and no step is recorded
C32_Witness ==
  /\ status = "paused"
  /\ \E t \in ThreadIds :
       /\ pipeline_thread = t
       /\ threads[t].pc = AfterUpdate(threads[t].func)
       /\ threads[t].step = 1
       /\ progress.step_number = 0
       /\ \A u \in ThreadIds \ {t} : threads[u].pc = "unborn"

\* C33: start_pipeline called from idle, completed, stopped or error
\* returns true, and when it returns the status is running, the progress is
\* PipelineProgress(total_steps), current_task is the task name, both
\* signals are clear and exactly one new background thread has been started.
C33_StartResetsController ==
  [][ /\ (callerPc = "ready" /\ ncmds' # ncmds /\ callerPc' = "ready"
           /\ ret'.op = "start" /\ ret'.val = FALSE)
           => status \in {"running", "paused"}
      /\ (callerPc = "s_91" /\ callerPc' = "ready")
           => ( /\ ret' = [op |-> "start", val |-> TRUE]
                /\ status' = "running"
                /\ progress' = PipelineProgress(callArgs.total)
                /\ current_task' = TaskName
                /\ ~pause_event'
                /\ ~stop_event'
                /\ pipeline_thread' = pipeline_thread + 1
                /\ threads[pipeline_thread'].pc = "unborn"
                /\ threads'[pipeline_thread'].pc = "run_103"
                /\ \A t \in ThreadIds \ {pipeline_thread'} :
                     threads'[t] = threads[t] )
    ]_vars

\* the next statement of the thread or call that holds the controller lock
HolderStep ==
  \/ Start_79 \/ Start_82 \/ Start_83 \/ Start_91
  \/ Pause_147 \/ Pause_148
  \/ Resume_159 \/ Resume_160
  \/ Stop_171 \/ Stop_172 \/ Stop_173
  \/ \E t \in ThreadIds :
       /\ lock = t
       /\ \/ Update_225(t) \/ Update_226(t) \/ Update_227(t)
          \/ Update_228(t) \/ Update_231(t)
          \/ Run_115(t) \/ Run_123(t)

\* C34: whoever holds the controller lock can execute its next statement;
\* in particular a background thread that waits on the pause signal inside
\* update_progress, where it holds the lock, finds the signal set. (Every
\* locked block is a straight line of statements, so the lock is released
\* and pause(), resume(), stop() and start_pipeline() return.)
C34_NoDeadlockOnLock ==
  /\ \A t \in ThreadIds : threads[t].pc = "up_227" => (lock = t /\ pause_event)
  /\ (lock # LockFree) => ENABLED HolderStep
  /\ (callerPc # "ready") => lock = LockCaller

\* a thread is at the wait of line 227, holding the lock, after pause()
C34_Witness ==
  \E t \in ThreadIds :
    /\ threads[t].pc = "up_227"
    /\ lock = t
    /\ lastCmd = "pause"

\* C35: under fair scheduling every background thread that has been started
\* terminates, with the status completed, stopped or error, unless a
\* pause() that returned true is still waiting for its resume() or stop();
\* in particular resume() wakes a thread that waits in wait_for_resume.
C35_EveryRunEnds ==
  \A t \in ThreadIds :
    (threads[t].pc \notin {"unborn", "done"})
    ~> ( \/ /\ threads[t].pc = "done"
            /\ status \in {"completed", "stopped", "error"}
         \/ PauseHeld )

\* C36: in every reachable state in which the status is running, the pause
\* signal and the stop signal are both clear. (States in which a call or
\* a thread is inside a block under the controller lock are left out: there
\* the status and the signals are being changed one after the other.)
C36_SignalsAgreeWithStatus ==
  (status = "running" /\ lock = LockFree) => (~pause_event /\ ~stop_event)

\* C37: after stop() has returned true and until the next start_pipeline
\* that succeeds, the status is never running or paused and no pause() or
\* resume() is accepted, whatever the thread of the stopped run does.
C37_StoppedRunNotRevived ==
  (lastCmd = "stop" /\ callerPc \notin {"s_79", "s_82", "s_83", "s_91"})
  => ( /\ status \notin {"running", "paused"}
       /\ callerPc \notin {"p_147", "p_148", "r_159", "r_160"} )

\* C38: once a new run has been started, no step of the thread of an
\* earlier run changes the status, the progress or current_task.
C38_RunsDoNotInterfere ==
  [][\A t \in ThreadIds :
       (t < pipeline_thread /\ threads'[t] # threads[t])
       => ( /\ status' = status
            /\ progress' = progress
            /\ current_task' = current_task )]_vars

\* C39: for every publish, a callback is called exactly once for each
\* registration that matches the event (its key is the event's recipient;
\* for recipient "ALL" every key may count), and a callback registered only
\* under other keys is not called.
C39_OneNotificationPerSubscription ==
  eb_call.op = "publish"
  => \A cb \in Callbacks :
       LET r == eb_call.event.recipient
           calls == Cardinality({k \in 1..Len(eb_call.invoked) :
                                   eb_call.invoked[k] = cb})
           Under(n) == \E i \in 1..Len(subscribers[n]) : subscribers[n][i] = cb
       IN  /\ (r \in SubscriberNames /\ Under(r)) => calls >= 1
           /\ calls <= Cardinality({n \in SubscriberNames :
                                      Under(n) /\ (n = r \/ r = "ALL")})

====
